---- MODULE Spec2Model ----
(***************************************************************************)
(* Support-ticket backend (src/backend_logic.py): the Ticket table, the    *)
(* TicketSerializer validation, the TicketViewSet operations (create,      *)
(* update, partial_update, destroy, list with get_queryset, stats) and the *)
(* ClassifyView.                                                           *)
(*                                                                         *)
(* Texts (title, description, search) are sequences of one-character       *)
(* strings.  A request body or query string is a function from the names   *)
(* it carries to their values, so "absent" is "not in the DOMAIN".         *)
(***************************************************************************)
EXTENDS Integers, Sequences, FiniteSets, TLC

VARIABLES
  tickets,        \* the Ticket table: a set of rows
  nextId,         \* the AutoField sequence of the table
  now,            \* the clock (timezone.now()), in ticks
  resp,           \* the last response of create / update / destroy / list
  st_pc,          \* position of the stats request in flight
  st_now,         \* stats: local `now`
  st_base,        \* stats: local `base_stats`
  st_priority,    \* stats: the evaluated `priority_data`
  st_resp,        \* stats: the response
  st_interleaved, \* history: the kinds of writes committed during the stats request
  apiKey,         \* os.environ.get("OPENAI_API_KEY"): a text or None
  cl_pc,          \* position of the classify request in flight
  cl_description, \* classify: local `description`
  calls,          \* classify: outbound calls made for the request in flight
  cl_outcome,     \* classify: what the client gave back (a completion or an exception)
  cl_resp         \* classify: the response

vars == <<tickets, nextId, now, resp, st_pc, st_now, st_base, st_priority,
          st_resp, st_interleaved, apiKey, cl_pc, cl_description, calls,
          cl_outcome, cl_resp>>

storeVars == <<tickets, nextId, now, resp>>
statsVars == <<st_pc, st_now, st_base, st_priority, st_resp, st_interleaved>>
classifyVars == <<apiKey, cl_pc, cl_description, calls, cl_outcome, cl_resp>>

(***************************************************************************)
(* Bounds of the model.                                                    *)
(***************************************************************************)
MaxCreates == 2     \* rows ever inserted
MaxTime == 1        \* last tick of the clock while tickets are edited and listed
StatsMaxTime == 8   \* last tick of the clock while statistics are computed

(***************************************************************************)
(* Ticket: the enumerations and the column limits.                         *)
(***************************************************************************)
CATEGORY_CHOICES == {"billing", "technical", "account", "general"}
PRIORITY_CHOICES == {"low", "medium", "high", "critical"}
STATUS_CHOICES == {"open", "in_progress", "resolved", "closed"}
TitleMaxLength == 200
StatusDefault == "open"

(***************************************************************************)
(* Text helpers.                                                           *)
(***************************************************************************)
UpperCase == <<"A","B","C","D","E","F","G","H","I","J","K","L","M",
               "N","O","P","Q","R","S","T","U","V","W","X","Y","Z">>
LowerCase == <<"a","b","c","d","e","f","g","h","i","j","k","l","m",
               "n","o","p","q","r","s","t","u","v","w","x","y","z">>

\* The ASCII case folding: each upper-case letter's lower-case letter.
ToLower ==
  [c \in {UpperCase[i] : i \in 1..Len(UpperCase)} |->
     LowerCase[CHOOSE i \in 1..Len(UpperCase) : UpperCase[i] = c]]

\* One character, case folded.
LowerChar(c) == IF c \in DOMAIN ToLower THEN ToLower[c] ELSE c

Lower(s) == [i \in 1..Len(s) |-> LowerChar(s[i])]

\* needle occurs in hay as a contiguous run (the empty needle always does).
Contains(hay, needle) ==
  \E k \in 0..(Len(hay) - Len(needle)) :
    \A i \in 1..Len(needle) : hay[k + i] = needle[i]

\* The database's icontains lookup: case-insensitive containment.
IContains(hay, needle) == Contains(Lower(hay), Lower(needle))

\* serializers.CharField(trim_whitespace=True): str.strip() of the input.
RECURSIVE LStrip(_)
LStrip(s) == IF s # <<>> /\ Head(s) = " " THEN LStrip(Tail(s)) ELSE s
RECURSIVE RStrip(_)
RStrip(s) ==
  IF s # <<>> /\ s[Len(s)] = " " THEN RStrip(SubSeq(s, 1, Len(s) - 1)) ELSE s
Trim(s) == RStrip(LStrip(s))

\* dict.get(key, default)
Get(d, k, default) == IF k \in DOMAIN d THEN d[k] ELSE default

\* Python truthiness of query_params.get(k): absent (None) and "" are false.
Truthy(d, k) == k \in DOMAIN d /\ d[k] # ""
\* The same for a parameter held as a text.
TruthyText(d, k) == k \in DOMAIN d /\ d[k] # <<>>

(***************************************************************************)
(* TicketSerializer: ModelSerializer over Ticket with fields = '__all__'.  *)
(* id (the AutoField) and created_at (auto_now_add) are read-only fields:  *)
(* a value a request carries for them is ignored.                          *)
(***************************************************************************)
TextFields == {"title", "description"}

WritableFieldsAll ==
  {"id", "title", "description", "category", "priority", "status", "created_at"}
WritableFields == {"title", "description", "category", "priority", "status"}

Choices(f) ==
  CASE f = "category" -> CATEGORY_CHOICES
    [] f = "priority" -> PRIORITY_CHOICES
    [] f = "status" -> STATUS_CHOICES

\* A field with a model default is not required; no field is in a partial update.
Required(f, partial) == ~partial /\ f # "status"

TextError(data, f, partial) ==
  IF f \notin DOMAIN data THEN Required(f, partial)
  ELSE \/ Trim(data[f]) = <<>>
       \/ (f = "title" /\ Len(Trim(data[f])) > TitleMaxLength)

ChoiceErrorNone(data, f, partial) ==
  IF f \notin DOMAIN data THEN Required(f, partial) ELSE FALSE
ChoiceError(data, f, partial) ==
  IF f \notin DOMAIN data THEN Required(f, partial)
  ELSE data[f] \notin Choices(f)

\* serializer.errors: the fields that fail validation.
FieldErrors(data, partial) ==
  {f \in TextFields : TextError(data, f, partial)}
    \cup {f \in {"category", "priority", "status"} : ChoiceError(data, f, partial)}

\* serializer.validated_data: the writable fields the request carries.
ValidatedData(data) ==
  [f \in (DOMAIN data \cap WritableFields) |->
     IF f \in TextFields THEN Trim(data[f]) ELSE data[f]]

\* Ticket.objects.create(**validated_data): the row inserted.
NewRow(v) ==
  [id |-> nextId, title |-> v.title, description |-> v.description,
   category |-> v.category, priority |-> v.priority,
   status |-> Get(v, "status", StatusDefault), created_at |-> now]

\* serializer.update(instance, validated_data); instance.save()
UpdatedRow(row, v) == [f \in DOMAIN row |-> IF f \in DOMAIN v THEN v[f] ELSE row[f]]

\* get_object(): the rows with this primary key (at most one).
Lookup(pk) == {t \in tickets : t.id = pk}

Response(op, code, request, body) ==
  [op |-> op, code |-> code, request |-> request, body |-> body]

\* A committed write ("insert", "update" or "delete"), recorded when a stats
\* request is in flight.
Committed(kind) ==
  /\ st_interleaved' =
       IF st_pc # "idle" THEN st_interleaved \cup {kind} ELSE st_interleaved
  /\ UNCHANGED <<st_pc, st_now, st_base, st_priority, st_resp>>

(***************************************************************************)
(* TicketViewSet: create, update (PUT), partial_update (PATCH), destroy.   *)
(***************************************************************************)
Create(data) ==
  /\ nextId <= MaxCreates
  /\ IF FieldErrors(data, FALSE) # {}
     THEN /\ resp' = Response("create", 400, data, FieldErrors(data, FALSE))
          /\ UNCHANGED <<tickets, nextId, now, statsVars>>
     ELSE /\ tickets' = tickets \cup {NewRow(ValidatedData(data))}
          /\ nextId' = nextId + 1
          /\ resp' = Response("create", 201, data, NewRow(ValidatedData(data)))
          /\ Committed("insert")
          /\ UNCHANGED now
  /\ UNCHANGED classifyVars

Save(op, pk, data, partial) ==
  /\ IF Lookup(pk) = {}
     THEN /\ resp' = Response(op, 404, data, <<>>)
          /\ UNCHANGED <<tickets, statsVars>>
     ELSE LET row == CHOOSE t \in Lookup(pk) : TRUE IN
          IF FieldErrors(data, partial) # {}
          THEN /\ resp' = Response(op, 400, data, FieldErrors(data, partial))
               /\ UNCHANGED <<tickets, statsVars>>
          ELSE /\ tickets' = (tickets \ {row}) \cup {UpdatedRow(row, ValidatedData(data))}
               /\ resp' = Response(op, 200, data, UpdatedRow(row, ValidatedData(data)))
               /\ Committed("update")
  /\ UNCHANGED <<nextId, now, classifyVars>>

Update(pk, data) == Save("update", pk, data, FALSE)

PartialUpdate(pk, data) == Save("partial_update", pk, data, TRUE)

Destroy(pk) ==
  /\ IF Lookup(pk) = {}
     THEN /\ resp' = Response("destroy", 404, <<>>, <<>>)
          /\ UNCHANGED <<tickets, statsVars>>
     ELSE /\ tickets' = tickets \ Lookup(pk)
          /\ resp' = Response("destroy", 204, <<>>, <<>>)
          /\ Committed("delete")
  /\ UNCHANGED <<nextId, now, classifyVars>>

\* The clock advances (up to the given last tick).
Tick(last) ==
  /\ now < last
  /\ now' = now + 1
  /\ UNCHANGED <<tickets, nextId, resp, statsVars, classifyVars>>

(***************************************************************************)
(* TicketViewSet.get_queryset and list.                                    *)
(***************************************************************************)
\* Q(title__icontains=search) | Q(description__icontains=search)
SearchMatchesBoth(t, search) ==
  IContains(t.title, search) /\ IContains(t.description, search)
SearchMatches(t, search) ==
  IContains(t.title, search) \/ IContains(t.description, search)

\* queryset.filter(<field>=value) when the parameter is truthy.
FilterBy(rows, params, f) ==
  IF Truthy(params, f) THEN {t \in rows : t[f] = params[f]} ELSE rows

get_queryset(params) ==
  LET q1 == FilterBy(tickets, params, "category")
      q2 == FilterBy(q1, params, "priority")
      q3 == FilterBy(q2, params, "status")
  IN  IF TruthyText(params, "search")
      THEN {t \in q3 : SearchMatches(t, params.search)}
      ELSE q3

\* Meta.ordering = ['-created_at']: a may come before b.
OrderedAscending(a, b) == a.created_at <= b.created_at
Ordered(a, b) == a.created_at >= b.created_at

\* The orders in which the database may return the rows: every arrangement
\* that respects the ordering (rows with equal created_at come in any order).
OrderBy(rows) ==
  {s \in [1..Cardinality(rows) -> rows] :
     /\ \A i, j \in DOMAIN s : i # j => s[i] # s[j]
     /\ \A i, j \in DOMAIN s : i < j => Ordered(s[i], s[j])}

List(params) ==
  /\ \E rows \in OrderBy(get_queryset(params)) :
       resp' = Response("list", 200, params, rows)
  /\ UNCHANGED <<tickets, nextId, now, statsVars, classifyVars>>

(***************************************************************************)
(* Requests.                                                               *)
(***************************************************************************)
Refund == <<"R","e","f","u","n","d">>
Login == <<"l","o","g","i","n">>
NoREFUND == <<"n","o"," ","R","E","F","U","N","D">>
Help == <<"h","e","l","p">>
Padded == <<" ","h","e","l","p"," ">>
Blank == <<" ">>

Body(title, description, category, priority) ==
  ("title" :> title) @@ ("description" :> description)
    @@ ("category" :> category) @@ ("priority" :> priority)

\* Bodies of the create requests of the editing scenario: valid ones (with and
\* without status, with values for the read-only fields) and invalid ones.
CreateBodies ==
  { Body(Refund, Padded, "billing", "low"),
    Body(Login, NoREFUND, "technical", "high") @@ ("status" :> "closed")
      @@ ("id" :> 9) @@ ("created_at" :> 7),
    Body(Refund, Help, "bogus", "low"),
    Body(Refund, Help, "billing", "urgent"),
    Body(Refund, Help, "billing", "low") @@ ("status" :> "done"),
    Body(Blank, Help, "billing", "low"),
    ("title" :> Refund) @@ ("category" :> "billing") @@ ("priority" :> "low") }

UpdateBodies ==
  { Body(Login, Help, "account", "critical") @@ ("id" :> 2) @@ ("created_at" :> 7),
    Body(Login, Help, "account", "") }

PartialBodies ==
  { ("status" :> "resolved"),
    ("status" :> ""),
    ("priority" :> "p1"),
    ("id" :> 1) @@ ("created_at" :> 7) }

PrimaryKeys == 1..(MaxCreates + 1)

\* Bodies of the create requests of the listing scenario: all valid.
ListedBodies ==
  { Body(Refund, Help, "billing", "low"),
    Body(Login, NoREFUND, "billing", "high") @@ ("status" :> "closed"),
    Body(Login, Help, "general", "high") }

Param(k, values) == {<<>>} \cup {k :> v : v \in values}

\* Query strings of the list requests: each parameter absent, empty or given.
ListParams ==
  { c @@ p @@ st @@ se :
      c \in Param("category", {"", "billing", "refunds"}),
      p \in Param("priority", {"high"}),
      st \in Param("status", {"closed"}),
      se \in Param("search", {<<>>, <<"r","e","F","u","n","d">>}) }

NoResponse == Response("none", 0, <<>>, <<>>)

\* The process environment: OPENAI_API_KEY unset (None), a working key, a
\* key the service rejects.
None == "None"
ApiKeys == {None, "sk-live", "sk-revoked"}

\* An empty table, no request in flight, the given environment.
InitWith(keys) ==
  /\ tickets = {}
  /\ nextId = 1
  /\ now = 0
  /\ resp = NoResponse
  /\ st_pc = "idle"
  /\ st_now = 0
  /\ st_base = <<>>
  /\ st_priority = {}
  /\ st_resp = <<>>
  /\ st_interleaved = {}
  /\ apiKey \in keys
  /\ cl_pc = "idle"
  /\ cl_description = ""
  /\ calls = 0
  /\ cl_outcome = <<>>
  /\ cl_resp = <<>>

Init == InitWith({"sk-live"})

(***************************************************************************)
(* Editing scenario: create, update, partial update and destroy requests.  *)
(***************************************************************************)
NextCrud ==
  \/ \E data \in CreateBodies : Create(data)
  \/ \E pk \in PrimaryKeys, data \in UpdateBodies : Update(pk, data)
  \/ \E pk \in PrimaryKeys, data \in PartialBodies : PartialUpdate(pk, data)
  \/ \E pk \in PrimaryKeys : Destroy(pk)
  \/ Tick(MaxTime)

SpecCrud == Init /\ [][NextCrud]_vars

(***************************************************************************)
(* Listing scenario: tickets are created over time and listed.             *)
(***************************************************************************)
NextList ==
  \/ \E data \in ListedBodies : Create(data)
  \/ \E params \in ListParams : List(params)
  \/ Tick(MaxTime)

SpecList == Init /\ [][NextList]_vars

(***************************************************************************)
(* Properties of the editing scenario.                                     *)
(***************************************************************************)
Ids(rows) == {t.id : t \in rows}

EnumsClosed(rows) ==
  \A t \in rows :
    /\ t.category \in {"billing", "technical", "account", "general"}
    /\ t.priority \in {"low", "medium", "high", "critical"}
    /\ t.status \in {"open", "in_progress", "resolved", "closed"}

\* The request carries a category, priority or status outside its enumeration.
CarriesBadValue(request) ==
  \/ "category" \in DOMAIN request
       /\ request.category \notin {"billing", "technical", "account", "general"}
  \/ "priority" \in DOMAIN request
       /\ request.priority \notin {"low", "medium", "high", "critical"}
  \/ "status" \in DOMAIN request
       /\ request.status \notin {"open", "in_progress", "resolved", "closed"}

\* C6: after any sequence of create, update and delete operations every stored
\* ticket has its category, priority and status inside the enumerations; a
\* create that omits status stores status = open; a create or update that
\* carries a value outside the enumerations is rejected and leaves the store
\* unchanged.
C6_EnumsClosed ==
  [][ /\ EnumsClosed(tickets')
      /\ \A t \in tickets' :
           (t.id \notin Ids(tickets) /\ "status" \notin DOMAIN resp'.request)
             => t.status = "open"
      /\ (resp'.op \in {"create", "update", "partial_update"}
            /\ CarriesBadValue(resp'.request))
           => (resp'.code \in {400, 404} /\ tickets' = tickets) ]_vars

\* C6 witness: a create without status has stored an open ticket, and the last
\* request, carrying a value outside the enumerations, was answered 400.
C6_Witness ==
  /\ \E t \in tickets : t.status = "open" /\ t.category = "billing"
  /\ resp.op \in {"create", "update", "partial_update"}
  /\ CarriesBadValue(resp.request)
  /\ resp.code = 400

\* C7: a ticket's id and created_at never change after its creation: every step
\* keeps the created_at of every ticket that stays, an update or partial update
\* (also one carrying id or created_at) keeps the set of ids, and ids stay unique.
C7_IdCreatedAtImmutable ==
  [][ /\ \A t \in tickets, u \in tickets' :
           t.id = u.id => t.created_at = u.created_at
      /\ resp'.op \in {"update", "partial_update"} => Ids(tickets') = Ids(tickets)
      /\ Cardinality(Ids(tickets')) = Cardinality(tickets') ]_vars

\* C7 witness: a full update carrying another id and another created_at has
\* been applied, later than the ticket's creation.
C7_Witness ==
  /\ resp.op = "update" /\ resp.code = 200
  /\ "id" \in DOMAIN resp.request /\ resp.request.id # resp.body.id
  /\ "created_at" \in DOMAIN resp.request
  /\ resp.request.created_at # resp.body.created_at
  /\ resp.body \in tickets
  /\ resp.body.created_at < now
  /\ resp.body.title = Login

(***************************************************************************)
(* Properties of the listing scenario.                                     *)
(***************************************************************************)
Range(s) == {s[i] : i \in DOMAIN s}

\* needle is, case-insensitively, a substring of hay.
CISubstring(needle, hay) ==
  \E i \in 1..(Len(hay) + 1) : \E j \in (i - 1)..Len(hay) :
    Lower(SubSeq(hay, i, j)) = Lower(needle)

\* t satisfies every filter among those named in `supplied`.
Satisfies(t, params, supplied) ==
  /\ \A f \in supplied \cap {"category", "priority", "status"} : t[f] = params[f]
  /\ "search" \in supplied =>
       CISubstring(params.search, t.title) \/ CISubstring(params.search, t.description)

ListResult(supplied) ==
  /\ Range(resp.body) = {t \in tickets : Satisfies(t, resp.request, supplied)}
  /\ Len(resp.body) = Cardinality(Range(resp.body))

\* C3 as stated: every parameter present in the query string is a filter, so
\* list returns exactly the tickets satisfying all the parameters present.
C3_Original ==
  resp.op = "list" => ListResult(DOMAIN resp.request)

\* C3 amended: a parameter is a filter when it is present and not the empty
\* string; list returns exactly the tickets that satisfy the conjunction of
\* those filters (equality for category, priority, status; case-insensitive
\* substring of title or description for search).
C3_ListFilters ==
  resp.op = "list" =>
    ListResult({f \in DOMAIN resp.request :
                  resp.request[f] # (IF f = "search" THEN <<>> ELSE "")})

\* C3 witness: a list with category, priority and a non-empty search given
\* returned one ticket, which matches the search on its description only, and
\* left out a ticket of that category with another priority.
C3_Witness ==
  /\ resp.op = "list"
  /\ {"category", "priority", "search"} \subseteq DOMAIN resp.request
  /\ resp.request.search # <<>>
  /\ Len(resp.body) = 1
  /\ ~CISubstring(resp.request.search, resp.body[1].title)
  /\ \E t \in tickets :
       t.category = resp.request.category /\ t.priority # resp.request.priority

\* C9: list returns the tickets newest first (created_at descending) whatever
\* the parameters, and with no parameter it returns the full ticket set.
C9_NewestFirst ==
  resp.op = "list" =>
    /\ \A i, j \in DOMAIN resp.body :
         i < j => resp.body[i].created_at >= resp.body[j].created_at
    /\ resp.request = <<>> =>
         (Range(resp.body) = tickets /\ Len(resp.body) = Cardinality(tickets))

\* C9 witness: a list without parameters returned two tickets created at
\* different times.
C9_Witness ==
  /\ resp.op = "list" /\ resp.request = <<>>
  /\ Len(resp.body) = 2
  /\ resp.body[1].created_at > resp.body[2].created_at

(***************************************************************************)
(* TicketViewSet.stats.  The request reads the clock, then runs three      *)
(* queries (the aggregate, the per-priority counts when priority_data is   *)
(* iterated, the per-category counts when category_data is iterated);      *)
(* other requests may commit between them.                                 *)
(***************************************************************************)
\* Clock ticks in one day: timedelta.days is the floor of the difference in days.
TicksPerDay == 2

Max(a, b) == IF a >= b THEN a ELSE b

SetMin(S) == CHOOSE m \in S : \A x \in S : m <= x

\* Ticket.objects.aggregate(Count('id'), Count('id', filter=Q(status='open')),
\* Min('created_at')); Min over no row is None, written <<>>.
Aggregate(rows) ==
  [total_tickets |-> Cardinality(rows),
   open_tickets |-> Cardinality({t \in rows : t.status = "open"}),
   first_ticket |-> IF rows = {} THEN <<>>
                    ELSE <<SetMin({t.created_at : t \in rows})>>]

\* max((now - first_ticket).days, 1)
DaysActive(n, first) == Max((n - first) \div TicksPerDay, 1)

RECURSIVE GCD(_, _)
GCD(a, b) == IF b = 0 THEN a ELSE GCD(b, a % b)

RECURSIVE IsPowerOfTwo(_)
IsPowerOfTwo(n) == n = 1 \/ (n > 1 /\ n % 2 = 0 /\ IsPowerOfTwo(n \div 2))

\* round(total / days, 1), in tenths: the values round() can return.  The
\* quotient is a double; round() goes to the nearest tenth of that double and
\* to the even tenth when the double is exactly half way.  A quotient half way
\* between two tenths is such a double only when it is dyadic; otherwise the
\* double lies on one side of it and either neighbour can be the result.
Round1Truncating(total, days) == {(10 * total) \div days}
Round1(total, days) ==
  LET n == 10 * total
      q == n \div days
      r == n % days
  IN  IF 2 * r < days THEN {q}
      ELSE IF 2 * r > days THEN {q + 1}
      ELSE IF IsPowerOfTwo(days \div GCD(total, days))
           THEN {IF q % 2 = 0 THEN q ELSE q + 1}
           ELSE {q, q + 1}

\* Ticket.objects.values(f).annotate(count=Count(f)): one row per value present.
GroupCountDistinct(rows, f) == {[key |-> v, count |-> 1] : v \in {t[f] : t \in rows}}
GroupCount(rows, f) ==
  {[key |-> v, count |-> Cardinality({t \in rows : t[f] = v})] :
     v \in {t[f] : t \in rows}}

\* {c[0]: 0 for c in CHOICES}, then breakdown[item[f]] = item['count'] per item.
BreakdownOfData(choices, data) ==
  [k \in {d.key : d \in data} |-> (CHOOSE d \in data : d.key = k).count]
Breakdown(choices, data) ==
  [k \in choices \cup {d.key : d \in data} |->
     IF \E d \in data : d.key = k
     THEN (CHOOSE d \in data : d.key = k).count
     ELSE 0]

\* now = timezone.now()
StatsBegin ==
  /\ st_pc = "idle"
  /\ st_pc' = "aggregate"
  /\ st_now' = now
  /\ st_interleaved' = {}
  /\ UNCHANGED <<st_base, st_priority, st_resp, storeVars, classifyVars>>

\* base_stats = Ticket.objects.aggregate(...)
StatsAggregate ==
  /\ st_pc = "aggregate"
  /\ st_base' = Aggregate(tickets)
  /\ st_pc' = "priority"
  /\ UNCHANGED <<st_now, st_priority, st_resp, st_interleaved, storeVars, classifyVars>>

\* for item in priority_data: the per-priority query runs.
StatsPriority ==
  /\ st_pc = "priority"
  /\ st_priority' = GroupCount(tickets, "priority")
  /\ st_pc' = "category"
  /\ UNCHANGED <<st_now, st_base, st_resp, st_interleaved, storeVars, classifyVars>>

\* for item in category_data: the per-category query runs; the response is built.
StatsCategory ==
  /\ st_pc = "category"
  /\ LET total == st_base.total_tickets
         first_ticket == IF st_base.first_ticket = <<>> THEN st_now
                         ELSE st_base.first_ticket[1]
         days_active == DaysActive(st_now, first_ticket)
     IN  \E avg_per_day \in Round1(total, days_active) :
           st_resp' =
             [total_tickets |-> total,
              open_tickets |-> st_base.open_tickets,
              avg_tickets_per_day |-> avg_per_day,
              priority_breakdown |-> Breakdown(PRIORITY_CHOICES, st_priority),
              category_breakdown |->
                Breakdown(CATEGORY_CHOICES, GroupCount(tickets, "category"))]
  /\ st_pc' = "done"
  /\ UNCHANGED <<st_now, st_base, st_priority, st_interleaved, storeVars, classifyVars>>

\* The response has been delivered.
StatsReturn ==
  /\ st_pc = "done"
  /\ st_pc' = "idle"
  /\ st_base' = <<>>
  /\ st_priority' = {}
  /\ st_resp' = <<>>
  /\ st_now' = 0
  /\ st_interleaved' = {}
  /\ UNCHANGED <<storeVars, classifyVars>>

\* Bodies of the requests that run beside the stats request.
StatsBodies ==
  { Body(Refund, Help, "billing", "low"),
    Body(Refund, Help, "general", "critical") @@ ("status" :> "closed"),
    Body(Refund, Help, "refunds", "urgent") }

StatsPatches == { ("status" :> "open") @@ ("priority" :> "medium") }

NextStats ==
  \/ \E data \in StatsBodies : Create(data)
  \/ \E pk \in PrimaryKeys, data \in StatsPatches : PartialUpdate(pk, data)
  \/ \E pk \in PrimaryKeys : Destroy(pk)
  \/ StatsBegin
  \/ StatsAggregate
  \/ StatsPriority
  \/ StatsCategory
  \/ StatsReturn

\* Requests of every kind run concurrently with a stats request (a burst of
\* requests within one tick of the clock).
SpecStats == Init /\ [][NextStats]_vars

\* Bodies of the create requests of the averaging scenario.
AverageBodies ==
  { Body(Refund, Help, "billing", "low"),
    Body(Login, Help, "general", "critical") @@ ("status" :> "closed") }

NextAverage ==
  \/ st_pc = "idle" /\ \E data \in AverageBodies : Create(data)
  \/ st_pc = "idle" /\ Tick(StatsMaxTime)
  \/ StatsBegin
  \/ StatsAggregate
  \/ StatsPriority
  \/ StatsCategory
  \/ StatsReturn

\* Tickets are created over several days and stats requests are served one at
\* a time, between the other requests.
SpecAverage == Init /\ [][NextAverage]_vars

(***************************************************************************)
(* Properties of stats.                                                    *)
(***************************************************************************)
RECURSIVE SumOver(_, _)
SumOver(f, keys) ==
  IF keys = {} THEN 0
  ELSE LET k == CHOOSE x \in keys : TRUE IN f[k] + SumOver(f, keys \ {k})

Total(f) == SumOver(f, DOMAIN f)

CountWhere(f, v) == Cardinality({t \in tickets : t[f] = v})

\* C4: in every stats response the keys of priority_breakdown are exactly low,
\* medium, high, critical and the keys of category_breakdown are exactly
\* billing, technical, account, general, whatever the store holds; when no
\* write ran beside the request each key reports the number of tickets with
\* that value, so a value with no ticket reports 0.
C4_BreakdownKeys ==
  st_pc = "done" =>
    /\ DOMAIN st_resp.priority_breakdown = {"low", "medium", "high", "critical"}
    /\ DOMAIN st_resp.category_breakdown
         = {"billing", "technical", "account", "general"}
    /\ st_interleaved = {} =>
         /\ \A k \in {"low", "medium", "high", "critical"} :
              st_resp.priority_breakdown[k] = CountWhere("priority", k)
         /\ \A k \in {"billing", "technical", "account", "general"} :
              st_resp.category_breakdown[k] = CountWhere("category", k)

\* C4 witness: a stats response over a store holding tickets of one priority
\* and one category only: the other keys report 0.
C4_Witness ==
  /\ st_pc = "done" /\ st_interleaved = {}
  /\ tickets # {}
  /\ \A t \in tickets : t.priority = "low" /\ t.category = "billing"
  /\ st_resp.priority_breakdown["critical"] = 0
  /\ st_resp.category_breakdown["general"] = 0

\* C10 as stated: every stats response is consistent, also when other requests
\* run beside it: both breakdowns sum to total_tickets and open_tickets is at
\* most total_tickets.
C10_Original ==
  st_pc = "done" =>
    /\ Total(st_resp.priority_breakdown) = st_resp.total_tickets
    /\ Total(st_resp.category_breakdown) = st_resp.total_tickets
    /\ st_resp.open_tickets <= st_resp.total_tickets

\* C10 amended: open_tickets is at most total_tickets in every stats response;
\* both breakdowns sum to total_tickets in every stats response during which
\* no create and no delete committed (updates may commit).
C10_ConsistentWithoutInsertDelete ==
  st_pc = "done" =>
    /\ st_resp.open_tickets <= st_resp.total_tickets
    /\ st_interleaved \cap {"insert", "delete"} = {} =>
         /\ Total(st_resp.priority_breakdown) = st_resp.total_tickets
         /\ Total(st_resp.category_breakdown) = st_resp.total_tickets

\* C10 witness: a stats response over two tickets of one priority, with an
\* update (and no create or delete) committed during the request.
C10_Witness ==
  /\ st_pc = "done"
  /\ st_interleaved = {"update"}
  /\ st_resp.total_tickets = 2
  /\ \E k \in DOMAIN st_resp.priority_breakdown : st_resp.priority_breakdown[k] = 2

Abs(x) == IF x < 0 THEN -x ELSE x

\* The whole days between two instants: the d with d days <= later - earlier
\* < d + 1 days.
WholeDays(earlier, later) ==
  CHOOSE d \in -1..(later - earlier) :
    d * TicksPerDay <= later - earlier /\ later - earlier < (d + 1) * TicksPerDay

\* C5: avg_tickets_per_day (held in tenths) is total_tickets / days_active
\* rounded to one decimal place (within half a tenth of the quotient), where
\* days_active is the whole days between the earliest created_at and now,
\* never less than 1; with no ticket the average is 0, and with N tickets all
\* created now it is N.
C5_AveragePerDay ==
  st_pc = "done" =>
    LET total == Cardinality(tickets)
        earliest == IF tickets = {} THEN st_now
                    ELSE SetMin({t.created_at : t \in tickets})
        days == Max(WholeDays(earliest, st_now), 1)
        avg == st_resp.avg_tickets_per_day
    IN  /\ st_resp.total_tickets = total
        /\ 2 * Abs(avg * days - 10 * total) <= days
        /\ total = 0 => avg = 0
        /\ (\A t \in tickets : t.created_at = st_now) => avg = 10 * total

\* C5 witness: two tickets, the earlier created three and a half days ago: the
\* average 2/3 is reported as 0.7.
C5_Witness ==
  /\ st_pc = "done"
  /\ st_resp.total_tickets = 2
  /\ \E t \in tickets : st_now - t.created_at = 3 * TicksPerDay + 1
  /\ st_resp.avg_tickets_per_day = 7

(***************************************************************************)
(* ClassifyView.post.  The outbound call is one step of its own: the       *)
(* request waits for the external service.                                 *)
(***************************************************************************)
\* `not description`
FalsyNever(description) == FALSE
Falsy(description) == description = ""

\* OpenAI(api_key=...): the constructor raises when it is given no key.
ClientError(key) ==
  IF key = None THEN <<"The api_key client option must be set">> ELSE <<>>

Suggestion(category, priority) ==
  ("suggested_category" :> category) @@ ("suggested_priority" :> priority)

\* What client.chat.completions.create(..., timeout=5) can give back: an
\* exception, or a completion whose message content is a JSON text (written as
\* the value it parses to), a text that is no JSON, or None.
Raised(error) == [raised |-> TRUE, error |-> error]
Completion(parses, value) == [raised |-> FALSE, parses |-> parses, value |-> value]

Outcomes(key) ==
  {Raised("Request timed out."), Raised("Connection error.")}
    \cup
  (IF key # "sk-live" THEN {Raised("Error code: 401")}
   ELSE {Raised("Error code: 500")}
          \cup {Completion(TRUE, Suggestion(c, p)) :
                  c \in CATEGORY_CHOICES \cup {"refunds"},
                  p \in PRIORITY_CHOICES \cup {"urgent"}}
          \cup {Completion(TRUE, <<>>),
                Completion(TRUE, "suggested_category" :> "billing"),
                Completion(TRUE, ("category" :> "billing") @@ ("priority" :> "low")),
                Completion(FALSE, "Expecting value"),
                Completion(FALSE, "the JSON object must be str, not NoneType")})

ClassifyResponse(code, body) == [code |-> code, body |-> body]

\* The except branch: the defaults with the failure's description.
Fallback(error) ==
  ClassifyResponse(200, Suggestion("general", "medium") @@ ("error" :> error))

\* Lines 121-125: the description check and the client's construction, which
\* is outside the try block: an exception there is answered 500 by the framework.
ClassifyPost(data) ==
  /\ cl_pc = "idle"
  /\ LET description == Get(data, "description", "") IN
       /\ cl_description' = description
       /\ IF Falsy(description)
          THEN /\ cl_resp' = ClassifyResponse(400, "error" :> "Description required")
               /\ cl_outcome' = <<>>
               /\ cl_pc' = "done"
          ELSE IF ClientError(apiKey) # <<>>
          THEN /\ cl_resp' = ClassifyResponse(500, <<>>)
               /\ cl_outcome' = Raised(ClientError(apiKey)[1])
               /\ cl_pc' = "done"
          ELSE /\ cl_resp' = <<>>
               /\ cl_outcome' = <<>>
               /\ cl_pc' = "awaiting"
  /\ calls' = 0
  /\ UNCHANGED <<apiKey, storeVars, statsVars>>

\* Lines 140-156: the call returns or raises; json.loads; the response.
ClassifyReply(outcome) ==
  /\ cl_pc = "awaiting"
  /\ calls' = calls + 1
  /\ cl_outcome' = outcome
  /\ cl_resp' =
       IF outcome.raised THEN Fallback(outcome.error)
       ELSE IF ~outcome.parses THEN Fallback(outcome.value)
       ELSE ClassifyResponse(200, outcome.value)
  /\ cl_pc' = "done"
  /\ UNCHANGED <<apiKey, cl_description, storeVars, statsVars>>

\* The response has been delivered.
ClassifyReturn ==
  /\ cl_pc = "done"
  /\ cl_pc' = "idle"
  /\ cl_description' = ""
  /\ calls' = 0
  /\ cl_outcome' = <<>>
  /\ cl_resp' = <<>>
  /\ UNCHANGED <<apiKey, storeVars, statsVars>>

\* Bodies of the classify requests: description absent, empty, given.
ClassifyBodies ==
  { <<>>,
    "description" :> "",
    "description" :> "I was charged twice",
    "description" :> "how do I export my data",
    ("description" :> "cannot log in") @@ ("title" :> "login") }

NextClassify ==
  \/ \E data \in ClassifyBodies : ClassifyPost(data)
  \/ \E outcome \in Outcomes(apiKey) : ClassifyReply(outcome)
  \/ ClassifyReturn

SpecClassify == InitWith(ApiKeys) /\ [][NextClassify]_vars

(***************************************************************************)
(* Properties of classify.                                                 *)
(***************************************************************************)
\* The request in flight met a failure: an exception, or a content that is no JSON.
Failed == cl_outcome # <<>> /\ (cl_outcome.raised \/ ~cl_outcome.parses)

\* C1: a Classify request with a non-empty description that meets any failure
\* (missing or invalid credential, client construction error, timeout, network
\* error, non-2xx, malformed JSON) is answered 200 with suggested_category =
\* "general", suggested_priority = "medium" and an error field; no failure
\* status code is surfaced.
C1_FailuresAbsorbed ==
  (cl_pc = "done" /\ cl_description # "" /\ Failed) =>
    /\ cl_resp.code = 200
    /\ cl_resp.body.suggested_category = "general"
    /\ cl_resp.body.suggested_priority = "medium"
    /\ "error" \in DOMAIN cl_resp.body

\* C2: a Classify request whose description is missing or empty is answered
\* 400 without any outbound call; no request makes more than one outbound call.
C2_NoCallWithoutDescription ==
  /\ calls <= 1
  /\ (cl_pc = "done" /\ cl_description = "") => (cl_resp.code = 400 /\ calls = 0)
  /\ (cl_pc = "done" /\ cl_resp.code = 400) => cl_description = ""

\* C2 witness: a request with no usable description has been answered 400.
C2_Witness ==
  cl_pc = "done" /\ cl_description = "" /\ cl_resp.code = 400 /\ calls = 0

\* C8: every 200 response of Classify to a non-empty description carries both
\* suggested_category and suggested_priority.
C8_SuggestionAlwaysPresent ==
  (cl_pc = "done" /\ cl_description # "" /\ cl_resp.code = 200) =>
    {"suggested_category", "suggested_priority"} \subseteq DOMAIN cl_resp.body
====
